---- MODULE Spec2Model ----
(***************************************************************************)
(* Applicant portal: the application status / payment state machine as    *)
(* the code implements it -- the Postgres schema (RLS policies and the    *)
(* log_status_change trigger), the two edge functions (stripe-webhook,    *)
(* create-payment-intent) and the React handlers that write the           *)
(* applications table.                                                     *)
(***************************************************************************)
EXTENDS Integers, Sequences, FiniteSets, TLC

(***************************************************************************)
(* Bounds of the model                                                     *)
(***************************************************************************)
\* longest status history kept per application
MaxHistory == 4
\* timestamps are logical: the n-th stamp written to a column is n
MaxStamps == 2
\* payment handles the provider hands out
MaxHandles == 2

(***************************************************************************)
(* Identities                                                              *)
(***************************************************************************)
NULL == "NULL"

\* application ids, in the order createNewApplication hands them out
AppSeq == <<"a1", "a2">>
AppIds == {AppSeq[i] : i \in 1..Len(AppSeq)}

\* profiles.role, schema.sql:15
Profiles == [u1 |-> "applicant", u2 |-> "applicant", r1 |-> "reviewer", r2 |-> "admin"]
Users == DOMAIN Profiles
Applicants == {u \in Users : Profiles[u] = "applicant"}
Staff == {u \in Users : Profiles[u] \in {"reviewer", "admin"}}

\* reviewer_assignments rows (application_id, reviewer_id)
reviewer_assignments == {<<"a1", "r1">>, <<"a2", "r1">>}

\* the client built from SERVICE_ROLE_KEY: bypasses RLS, carries no user
ServiceRole == "service_role"
Clients == Users \cup {ServiceRole}

\* auth.uid() as seen by triggers and policies
auth_uid(client) == IF client = ServiceRole THEN NULL ELSE client

(***************************************************************************)
(* Column domains                                                          *)
(***************************************************************************)
ApplicationStatus == {"draft", "submitted", "payment_received", "in_review", "decision_released"}
Decisions == {"accepted", "rejected"}
StripePaymentStatus == {"pending", "succeeded", "failed"}
PaymentMethods == {"zelle", "stripe"}
HandleIds == 1..MaxHandles

\* what the form sends: the required applicant-information columns are
\* written together and stand here as one column (first_name)
FormValues ==
  [first_name : {"", "Ann", "Bea"},
   applying_for_financial_aid : {NULL, "yes", "no"},
   financial_circumstances_overview : {"", "text"},
   payment_method : PaymentMethods \cup {NULL},
   payment_certification : {"", "text"}]

OrNull(s) == IF s = "" THEN NULL ELSE s

(***************************************************************************)
(* State                                                                   *)
(***************************************************************************)
VARIABLES
  applications,   \* table applications: created ids -> row
  history,        \* table application_status_history, per application, in insertion order
  documents,      \* table application_documents: set of rows
  blobs,          \* storage bucket application-documents: set of file paths
  intents,        \* the payment provider's handles: id -> [status, applicationId]
  reviewPage,     \* ApplicationReview: per staff user, the page's `application` state
  dashboard,      \* AdminDashboard: the page's `applications` state
  form,           \* ApplicationForm: the page's `application` and `documents` state
  webhook,        \* stripe-webhook invocations
  cpi,            \* create-payment-intent invocations
  bulkRelease,    \* AdminDashboard: what the last "Release All" ran into and alerted
  paymentForm,    \* StripePaymentWrapper / PaymentForm: the mounted payment form
  authProvider,   \* AuthProvider: its state, the auth client's session, profile fetches in flight
  protectedRoute  \* ProtectedRoute: what its last rendering read and returned

vars == <<applications, history, documents, blobs, intents, reviewPage, dashboard, form, webhook,
          cpi, bulkRelease, paymentForm, authProvider, protectedRoute>>

store == <<applications, history>>

(***************************************************************************)
(* The applications table: rows, RLS policies, triggers                    *)
(***************************************************************************)
\* the row createNewApplication inserts, with the column defaults
NewRow(uid) ==
  [user_id |-> uid,
   current_status |-> "draft",
   first_name |-> NULL,
   applying_for_financial_aid |-> NULL,
   financial_circumstances_overview |-> NULL,
   payment_method |-> NULL,
   payment_certification |-> NULL,
   payment_verified |-> FALSE,
   payment_verified_at |-> 0,          \* 0 is NULL
   payment_verified_by |-> NULL,
   stripe_payment_intent_id |-> 0,     \* 0 is NULL
   stripe_payment_status |-> NULL,
   decision |-> NULL,
   decision_released_at |-> 0]         \* 0 is NULL

Exists(a) == a \in DOMAIN applications

\* new Date().toISOString(): later than the stamp it replaces
NewDate(prev) == prev + 1

\* "Applicants can update own draft applications"
ApplicantDraftPolicy(uid, old) ==
  uid = old.user_id /\ old.current_status = "draft"

\* "Applicants can update payment info for submitted applications": USING
ApplicantPaymentInfoUsing(uid, old) ==
  /\ uid = old.user_id
  /\ old.current_status = "submitted"
  /\ ~old.payment_verified

\* ... and its WITH CHECK: the non-payment columns stay as they are
ApplicantPaymentInfoCheck(old, new) ==
  /\ old.first_name = new.first_name
  /\ old.applying_for_financial_aid = new.applying_for_financial_aid
  /\ old.financial_circumstances_overview = new.financial_circumstances_overview
  /\ old.current_status = new.current_status
  /\ old.payment_verified = new.payment_verified
  /\ old.decision = new.decision

\* "Reviewers can update assigned application status"
ReviewerPolicy(uid, a) ==
  /\ <<a, uid>> \in reviewer_assignments
  /\ uid \in Users /\ Profiles[uid] \in {"reviewer", "admin"}

\* "Admins have full access to applications"
AdminPolicy(uid) == uid \in Users /\ Profiles[uid] = "admin"

\* the row is visible to the UPDATE (some policy's USING holds)
UpdateUsing(uid, a, old) ==
  \/ ApplicantDraftPolicy(uid, old)
  \/ ApplicantPaymentInfoUsing(uid, old)
  \/ ReviewerPolicy(uid, a)
  \/ AdminPolicy(uid)

\* the new row is accepted (the policy that admitted the row accepts it)
UpdateCheck(uid, a, old, new) ==
  \/ ApplicantDraftPolicy(uid, old)
  \/ ApplicantPaymentInfoUsing(uid, old) /\ ApplicantPaymentInfoCheck(old, new)
  \/ ReviewerPolicy(uid, a)
  \/ AdminPolicy(uid)

\* log_status_change that logs the new status in both columns
log_status_change_NewOnly(client, old, new) ==
  IF old.current_status # new.current_status
    THEN <<[old_status |-> new.current_status,
            new_status |-> new.current_status,
            changed_by |-> auth_uid(client)]>>
    ELSE <<>>

\* trigger log_application_status_change: the row it inserts, if any
log_status_change(client, old, new) ==
  IF old.current_status # new.current_status
    THEN <<[old_status |-> old.current_status,
            new_status |-> new.current_status,
            changed_by |-> auth_uid(client)]>>
    ELSE <<>>

\* application_status_history.changed_by is NOT NULL
HistoryConstraint(rows) == \A i \in 1..Len(rows) : rows[i].changed_by # NULL

\* supabase.from('applications').update(patch).eq('id', a) issued by `client`,
\* where `new` is the row with the patch applied:
\*   "norows"  no row matched (absent, or hidden by RLS): no error, no change
\*   "error"   the statement failed and was rolled back
\*   "applied" row and trigger effects committed together
UpdateOutcome(client, a, new) ==
  IF ~Exists(a) THEN "norows"
  ELSE LET old == applications[a] IN
    IF client # ServiceRole /\ ~UpdateUsing(client, a, old) THEN "norows"
    ELSE IF client # ServiceRole /\ ~UpdateCheck(client, a, old, new) THEN "error"
    ELSE IF ~HistoryConstraint(log_status_change(client, old, new)) THEN "error"
    ELSE "applied"

\* the history stays within the model's bound
Room(client, a, new) ==
  UpdateOutcome(client, a, new) = "applied"
    => Len(history[a]) + Len(log_status_change(client, applications[a], new)) <= MaxHistory

\* Update without the trigger log_application_status_change
Update_NoTrigger(client, a, new) ==
  IF UpdateOutcome(client, a, new) = "applied"
    THEN /\ applications' = [applications EXCEPT ![a] = new]
         /\ history' = history
    ELSE UNCHANGED store

\* the effect of the update on the two tables
Update(client, a, new) ==
  IF UpdateOutcome(client, a, new) = "applied"
    THEN /\ applications' = [applications EXCEPT ![a] = new]
         /\ history' = [history EXCEPT ![a] = @ \o log_status_change(client, applications[a], new)]
    ELSE UNCHANGED store

(***************************************************************************)
(* ApplicationReview page (src/pages/admin/ApplicationReview.tsx)          *)
(***************************************************************************)
\* what the page's logic reads of its `application` state
ReviewView(row) ==
  [current_status |-> row.current_status,
   payment_verified |-> row.payment_verified,
   decision |-> row.decision]

NoReviewPage ==
  [id |-> NULL,
   application |-> [current_status |-> NULL, payment_verified |-> FALSE, decision |-> NULL]]

\* fetchApplication after a write that did not throw; the page keeps its
\* state when the write failed
ReviewRefresh(r, a, outcome) ==
  reviewPage' =
    IF outcome = "error" THEN reviewPage
    ELSE [reviewPage EXCEPT ![r] = [id |-> a, application |-> ReviewView(applications'[a])]]

\* a staff user opens (or reloads) /admin/application/:id
ReviewFetchApplication(r, a) ==
  /\ Exists(a)
  /\ reviewPage' = [reviewPage EXCEPT ![r] = [id |-> a, application |-> ReviewView(applications[a])]]
  /\ UNCHANGED <<store, documents, blobs, intents, dashboard, form, webhook, cpi, bulkRelease, paymentForm, authProvider, protectedRoute>>

\* the "Verify Payment" button is rendered under this condition; 'received'
\* is not a value of current_status
VerifyPaymentShown(view) ==
  view.current_status = "received" /\ ~view.payment_verified

\* VerifyPaymentRow that marks the payment and leaves the status
VerifyPaymentRow_KeepsStatus(r, old) ==
  [old EXCEPT !.payment_verified = TRUE,
              !.payment_verified_at = NewDate(old.payment_verified_at),
              !.payment_verified_by = r]

\* the row handleVerifyPayment writes
VerifyPaymentRow(r, old) ==
  [old EXCEPT !.payment_verified = TRUE,
              !.payment_verified_at = NewDate(old.payment_verified_at),
              !.payment_verified_by = r,
              !.current_status = "payment_received"]

\* handleVerifyPayment, as the page's verify-payment entry point
handleVerifyPayment(r) ==
  LET a == reviewPage[r].id IN
  /\ a # NULL
  /\ LET new == VerifyPaymentRow(r, applications[a]) IN
     /\ Room(r, a, new)
     /\ applications[a].payment_verified_at < MaxStamps
     /\ Update(r, a, new)
     /\ ReviewRefresh(r, a, UpdateOutcome(r, a, new))
  /\ UNCHANGED <<documents, blobs, intents, dashboard, form, webhook, cpi, bulkRelease, paymentForm, authProvider, protectedRoute>>

\* handleStatusChange: the "Change Status" dropdown of the review page
ReviewHandleStatusChange(r, newStatus) ==
  LET a == reviewPage[r].id IN
  /\ a # NULL
  /\ LET new == [applications[a] EXCEPT !.current_status = newStatus] IN
     /\ Room(r, a, new)
     /\ Update(r, a, new)
     /\ ReviewRefresh(r, a, UpdateOutcome(r, a, new))
  /\ UNCHANGED <<documents, blobs, intents, dashboard, form, webhook, cpi, bulkRelease, paymentForm, authProvider, protectedRoute>>

\* "Start Review" is rendered while the page shows payment_received
handleAdvanceToReview(r) ==
  LET a == reviewPage[r].id IN
  /\ a # NULL
  /\ reviewPage[r].application.current_status = "payment_received"
  /\ LET new == [applications[a] EXCEPT !.current_status = "in_review"] IN
     /\ Room(r, a, new)
     /\ Update(r, a, new)
     /\ ReviewRefresh(r, a, UpdateOutcome(r, a, new))
  /\ UNCHANGED <<documents, blobs, intents, dashboard, form, webhook, cpi, bulkRelease, paymentForm, authProvider, protectedRoute>>

\* Accept / Reject are rendered while the page shows in_review without a
\* decision; Change Decision (to the other value) while it shows one
SaveDecisionShown(view, decision) ==
  /\ view.current_status = "in_review"
  /\ \/ view.decision = NULL
     \/ view.decision # NULL /\ decision = (IF view.decision = "accepted" THEN "rejected" ELSE "accepted")

handleSaveDecision(r, decision) ==
  LET a == reviewPage[r].id IN
  /\ a # NULL
  /\ SaveDecisionShown(reviewPage[r].application, decision)
  /\ LET new == [applications[a] EXCEPT !.decision = decision] IN
     /\ Update(r, a, new)
     /\ ReviewRefresh(r, a, UpdateOutcome(r, a, new))
  /\ UNCHANGED <<documents, blobs, intents, dashboard, form, webhook, cpi, bulkRelease, paymentForm, authProvider, protectedRoute>>

\* "Release This Decision" is rendered while the page shows in_review with a decision
handleReleaseThisDecision(r) ==
  LET a == reviewPage[r].id IN
  /\ a # NULL
  /\ reviewPage[r].application.current_status = "in_review"
  /\ reviewPage[r].application.decision # NULL
  /\ LET new == [applications[a] EXCEPT !.current_status = "decision_released",
                                        !.decision_released_at = NewDate(@)] IN
     /\ Room(r, a, new)
     /\ applications[a].decision_released_at < MaxStamps
     /\ Update(r, a, new)
     /\ ReviewRefresh(r, a, UpdateOutcome(r, a, new))
  /\ UNCHANGED <<documents, blobs, intents, dashboard, form, webhook, cpi, bulkRelease, paymentForm, authProvider, protectedRoute>>

(***************************************************************************)
(* AdminDashboard page (src/pages/admin/AdminDashboard.tsx)                *)
(***************************************************************************)
\* the staff user the dashboard is open for
DashboardUser == "r2"

\* what the page's logic reads of each element of its `applications` state
DashboardView(row) ==
  [current_status |-> row.current_status, decision |-> row.decision]

\* the list fetchApplications would load now
DashboardList(apps) == [a \in DOMAIN apps |-> DashboardView(apps[a])]

fetchApplications ==
  /\ dashboard' = DashboardList(applications)
  /\ UNCHANGED <<store, documents, blobs, intents, reviewPage, form, webhook, cpi, bulkRelease, paymentForm, authProvider, protectedRoute>>

\* fetchApplications after a write that did not throw
DashboardRefresh(outcome) ==
  dashboard' = IF outcome = "error" THEN dashboard ELSE DashboardList(applications')

\* the row's "Release Decision" button
ReleaseDecisionShown(view) ==
  view.decision # NULL /\ view.current_status # "decision_released"

releaseDecision(a) ==
  /\ a \in DOMAIN dashboard
  /\ ReleaseDecisionShown(dashboard[a])
  /\ LET new == [applications[a] EXCEPT !.current_status = "decision_released"] IN
     /\ Room(DashboardUser, a, new)
     /\ Update(DashboardUser, a, new)
     /\ DashboardRefresh(UpdateOutcome(DashboardUser, a, new))
  /\ UNCHANGED <<documents, blobs, intents, reviewPage, form, webhook, cpi, bulkRelease, paymentForm, authProvider, protectedRoute>>

\* handleStatusChange: the status dropdown of a dashboard row
DashboardHandleStatusChange(a, newStatus) ==
  /\ a \in DOMAIN dashboard
  /\ LET new == [applications[a] EXCEPT !.current_status = newStatus] IN
     /\ Room(DashboardUser, a, new)
     /\ Update(DashboardUser, a, new)
     /\ DashboardRefresh(UpdateOutcome(DashboardUser, a, new))
  /\ UNCHANGED <<documents, blobs, intents, reviewPage, form, webhook, cpi, bulkRelease, paymentForm, authProvider, protectedRoute>>

\* the rows releaseAllDecisions counts in the page's list
applicationsWithDecisions ==
  {a \in DOMAIN dashboard :
     dashboard[a].current_status = "in_review" /\ dashboard[a].decision # NULL}

\* ReleaseAllMatches without .not('decision', 'is', null)
ReleaseAllMatches_NoDecisionFilter(client) ==
  {a \in DOMAIN applications :
     /\ applications[a].current_status = "in_review"
     /\ (client = ServiceRole \/ UpdateUsing(client, a, applications[a]))}

\* the rows its UPDATE ... WHERE current_status = 'in_review' AND decision IS NOT NULL matches
ReleaseAllMatches(client) ==
  {a \in DOMAIN applications :
     /\ applications[a].current_status = "in_review"
     /\ applications[a].decision # NULL
     /\ (client = ServiceRole \/ UpdateUsing(client, a, applications[a]))}

ReleaseAllRow(old) ==
  [old EXCEPT !.current_status = "decision_released",
              !.decision_released_at = NewDate(@)]

\* no "Release All" has run
NoBulkRelease == [failed |-> {}, alert |-> NULL]

\* one statement: every matched row and its history row commit together.
\* `failing` are the matched rows whose write the database refuses; the
\* statement then fails as a whole, `error` is thrown and one alert is shown
releaseAllDecisions(failing) ==
  /\ applicationsWithDecisions # {}
  /\ LET hit == ReleaseAllMatches(DashboardUser) IN
     /\ failing \subseteq hit
     /\ \A a \in hit : /\ Len(history[a]) < MaxHistory
                       /\ applications[a].decision_released_at < MaxStamps
     /\ IF failing = {}
          THEN /\ applications' = [a \in DOMAIN applications |->
                     IF a \in hit THEN ReleaseAllRow(applications[a]) ELSE applications[a]]
               /\ history' = [a \in AppIds |->
                     IF a \in hit
                       THEN history[a] \o log_status_change(DashboardUser, applications[a],
                                                            ReleaseAllRow(applications[a]))
                       ELSE history[a]]
               /\ DashboardRefresh("applied")
               /\ bulkRelease' = [failed |-> {}, alert |-> "Successfully released"]
          ELSE /\ UNCHANGED <<store, dashboard>>
               /\ bulkRelease' = [failed |-> failing,
                                  alert |-> "Failed to release decisions. Please try again."]
  /\ UNCHANGED <<documents, blobs, intents, reviewPage, form, webhook, cpi, paymentForm, authProvider, protectedRoute>>

(***************************************************************************)
(* Applicant side: ApplicantDashboard.createNewApplication and the        *)
(* ApplicationForm page                                                    *)
(***************************************************************************)
\* documents a model run may upload
MaxDocs == 2

\* application_documents.file_type CHECK, and the types the form's two
\* upload rows send
DocTypes == {"application", "supporting_document"}
UploadTypes == {"application", "transcript"}

createNewApplication(uid) ==
  /\ Cardinality(DOMAIN applications) < Len(AppSeq)
  /\ LET a == AppSeq[Cardinality(DOMAIN applications) + 1] IN
       /\ applications' = [x \in DOMAIN applications \cup {a} |->
                             IF x = a THEN NewRow(uid) ELSE applications[x]]
  /\ UNCHANGED <<history, documents, blobs, intents, reviewPage, dashboard, form, webhook, cpi, bulkRelease, paymentForm, authProvider, protectedRoute>>

FormView(row) ==
  [current_status |-> row.current_status, payment_verified |-> row.payment_verified]

NoForm ==
  [id |-> NULL, user |-> NULL,
   application |-> [current_status |-> NULL, payment_verified |-> FALSE],
   documents |-> {}]

\* the form renders only while its `application` state is a draft (else the
\* "cannot be edited" screen)
FormShown == form.id # NULL /\ form.application.current_status = "draft"

\* fetchApplication of the form: the owner opens /application/:id
FormFetchApplication(uid, a) ==
  /\ Exists(a)
  /\ applications[a].user_id = uid
  /\ form' = [id |-> a, user |-> uid,
              application |-> FormView(applications[a]),
              documents |-> {d \in documents : d.application_id = a}]
  /\ UNCHANGED <<store, documents, blobs, intents, reviewPage, dashboard, webhook, cpi, bulkRelease, paymentForm, authProvider, protectedRoute>>

\* the columns saveProgress writes from the form's fields
SaveProgressRow(old, f) ==
  [old EXCEPT !.first_name = f.first_name,
              !.applying_for_financial_aid = f.applying_for_financial_aid,
              !.financial_circumstances_overview = OrNull(f.financial_circumstances_overview),
              !.payment_certification = OrNull(f.payment_certification),
              !.payment_method = f.payment_method]

saveProgress(f) ==
  /\ FormShown
  /\ Update(form.user, form.id, SaveProgressRow(applications[form.id], f))
  /\ UNCHANGED <<documents, blobs, intents, reviewPage, dashboard, form, webhook, cpi, bulkRelease, paymentForm, authProvider, protectedRoute>>

\* validateForm: the sections with something missing
validateForm(f, docs) ==
  (IF f.first_name = "" THEN {"info"} ELSE {})
  \cup
  (IF ~(\E d \in docs : d.file_type = "application") THEN {"documents"} ELSE {})
  \cup
  (IF f.applying_for_financial_aid = NULL THEN {"documents"}
   ELSE IF f.applying_for_financial_aid = "yes" /\ f.financial_circumstances_overview = ""
     THEN {"documents"}
   ELSE IF f.applying_for_financial_aid = "no"
             /\ (f.payment_method = NULL
                 \/ (f.payment_method = "zelle" /\ f.payment_certification = ""))
     THEN {"documents"}
   ELSE {})

\* the columns handleSubmit writes
SubmitRow(old, f) ==
  [old EXCEPT !.first_name = f.first_name,
              !.applying_for_financial_aid = f.applying_for_financial_aid,
              !.financial_circumstances_overview = f.financial_circumstances_overview,
              !.payment_certification = f.payment_certification,
              !.payment_method = f.payment_method,
              !.current_status = "submitted"]

\* handleSubmit of the form; navigate('/status') leaves the page unless the
\* update threw
handleSubmit(f) ==
  /\ FormShown
  /\ validateForm(f, form.documents) = {}
  /\ LET new == SubmitRow(applications[form.id], f) IN
     /\ Room(form.user, form.id, new)
     /\ Update(form.user, form.id, new)
     /\ form' = IF UpdateOutcome(form.user, form.id, new) = "error" THEN form ELSE NoForm
  /\ UNCHANGED <<documents, blobs, intents, reviewPage, dashboard, webhook, cpi, bulkRelease, paymentForm, authProvider, protectedRoute>>

\* application_documents INSERT and DELETE policies: own application, still
\* a draft
DocumentInsertPolicy(uid, a) ==
  Exists(a) /\ applications[a].user_id = uid /\ applications[a].current_status = "draft"

\* a path no blob and no document row uses (`${user.id}/${id}/${Date.now()}_${file.name}`)
FreshPath(n) ==
  /\ n \in 1..MaxDocs
  /\ n \notin blobs
  /\ \A d \in documents : d.file_path # n
  /\ \A m \in 1..MaxDocs : (m \notin blobs /\ \A d \in documents : d.file_path # m) => n <= m

\* handleFileUpload: reject non-PDF and oversized files, then storage upload,
\* then the row insert
handleFileUpload(fileType, isPdf, sizeOk) ==
  /\ FormShown
  /\ IF ~isPdf \/ ~sizeOk
       THEN UNCHANGED <<documents, blobs, form>>
       ELSE \E n \in 1..MaxDocs :
              /\ FreshPath(n)
              /\ blobs' = blobs \cup {n}
              /\ LET doc == [id |-> n, application_id |-> form.id,
                             file_path |-> n, file_type |-> fileType] IN
                 IF DocumentInsertPolicy(form.user, form.id) /\ fileType \in DocTypes
                   THEN /\ documents' = documents \cup {doc}
                        /\ form' = [form EXCEPT !.documents = @ \cup {doc}]
                   ELSE UNCHANGED <<documents, form>>
  /\ UNCHANGED <<store, intents, reviewPage, dashboard, webhook, cpi, bulkRelease, paymentForm, authProvider, protectedRoute>>

\* handleDeleteDocument: storage remove, then the row delete (its DELETE
\* policy hides the row unless the application is a draft), then the list
handleDeleteDocument(doc) ==
  /\ FormShown
  /\ doc \in form.documents
  /\ blobs' = blobs \ {doc.file_path}
  /\ documents' = IF DocumentInsertPolicy(form.user, doc.application_id)
                    THEN {d \in documents : d.id # doc.id}
                    ELSE documents
  /\ form' = [form EXCEPT !.documents = {d \in @ : d.id # doc.id}]
  /\ UNCHANGED <<store, intents, reviewPage, dashboard, webhook, cpi, bulkRelease, paymentForm, authProvider, protectedRoute>>

(***************************************************************************)
(* Payment provider (Stripe) as the edge functions use it                  *)
(***************************************************************************)
\* PaymentIntent.status values; the four the reuse check accepts are usable
UsableIntentStatus ==
  {"requires_payment_method", "requires_confirmation", "requires_action", "processing"}
IntentStatus == UsableIntentStatus \cup {"canceled", "succeeded"}

NoIntent == [status |-> NULL, applicationId |-> NULL]

\* PaymentIntent.client_secret: one per handle, not the handle's id
client_secret(h) == -h

\* the handle stripe.paymentIntents.create returns next
NextHandle(h) ==
  /\ h \in HandleIds
  /\ intents[h].status = NULL
  /\ \A g \in HandleIds : intents[g].status = NULL => h <= g

\* the provider moves a live handle on (the client confirms, the payment
\* is processed or declined, the handle is canceled)
StripeTransition(h, s) ==
  /\ intents[h].status \in UsableIntentStatus
  /\ s \in IntentStatus \ {intents[h].status}
  /\ intents' = [intents EXCEPT ![h].status = s]
  /\ UNCHANGED <<store, documents, blobs, reviewPage, dashboard, form, webhook, cpi, bulkRelease, paymentForm, authProvider, protectedRoute>>

(***************************************************************************)
(* stripe-webhook edge function (README.md:341-496)                        *)
(***************************************************************************)
WebhookIds == {"w1", "w2"}

EventSucceeded == "payment_intent.succeeded"
EventFailed == "payment_intent.payment_failed"
EventTypes == {EventSucceeded, EventFailed, "charge.refunded"}
Signatures == {"missing", "invalid", "valid"}

WebhookIdle ==
  [pc |-> "idle", signature |-> NULL, type |-> NULL, applicationId |-> NULL,
   paymentIntent |-> 0, status |-> 0, body |-> NULL]

Respond(rec, status, body) == [rec EXCEPT !.pc = "done", !.status = status, !.body = body]

\* WebhookResult that takes an invalid signature for a valid one
WebhookResult_NoSignatureCheck(rec, signature) ==
  IF signature = "missing" THEN Respond(rec, 400, "No signature provided")
  ELSE IF rec.type = EventSucceeded THEN
    IF rec.applicationId = NULL THEN Respond(rec, 400, "Missing application ID")
    ELSE IF ~Exists(rec.applicationId) THEN Respond(rec, 404, "Application not found")
    ELSE IF applications[rec.applicationId].payment_verified
      THEN Respond(rec, 200, "Payment already verified")
    ELSE [rec EXCEPT !.pc = "update"]
  ELSE IF rec.type = EventFailed THEN
    IF rec.applicationId = NULL THEN Respond(rec, 400, "Missing application ID")
    ELSE IF ~Exists(rec.applicationId) THEN Respond(rec, 404, "Application not found")
    ELSE [rec EXCEPT !.pc = "update"]
  ELSE Respond(rec, 200, "received")

\* WebhookResult without the check of metadata.applicationId
WebhookResult_NoIdCheck(rec, signature) ==
  IF signature = "missing" THEN Respond(rec, 400, "No signature provided")
  ELSE IF signature = "invalid" THEN Respond(rec, 400, "error.message")
  ELSE IF rec.type = EventSucceeded THEN
    IF ~Exists(rec.applicationId) THEN Respond(rec, 404, "Application not found")
    ELSE IF applications[rec.applicationId].payment_verified
      THEN Respond(rec, 200, "Payment already verified")
    ELSE [rec EXCEPT !.pc = "update"]
  ELSE IF rec.type = EventFailed THEN
    IF ~Exists(rec.applicationId) THEN Respond(rec, 404, "Application not found")
    ELSE [rec EXCEPT !.pc = "update"]
  ELSE Respond(rec, 200, "received")

\* WebhookResult that refuses the event types it does not handle
WebhookResult_UnknownRefused(rec, signature) ==
  IF signature = "missing" THEN Respond(rec, 400, "No signature provided")
  ELSE IF signature = "invalid" THEN Respond(rec, 400, "error.message")
  ELSE IF rec.type = EventSucceeded THEN
    IF rec.applicationId = NULL THEN Respond(rec, 400, "Missing application ID")
    ELSE IF ~Exists(rec.applicationId) THEN Respond(rec, 404, "Application not found")
    ELSE IF applications[rec.applicationId].payment_verified
      THEN Respond(rec, 200, "Payment already verified")
    ELSE [rec EXCEPT !.pc = "update"]
  ELSE IF rec.type = EventFailed THEN
    IF rec.applicationId = NULL THEN Respond(rec, 400, "Missing application ID")
    ELSE IF ~Exists(rec.applicationId) THEN Respond(rec, 404, "Application not found")
    ELSE [rec EXCEPT !.pc = "update"]
  ELSE Respond(rec, 400, "Unhandled event type")

\* the request up to the end of its SELECT: signature, event type,
\* metadata.applicationId, lookup, already-verified check
WebhookResult(rec, signature) ==
  IF signature = "missing" THEN Respond(rec, 400, "No signature provided")
  ELSE IF signature = "invalid" THEN Respond(rec, 400, "error.message")
  ELSE IF rec.type = EventSucceeded THEN
    IF rec.applicationId = NULL THEN Respond(rec, 400, "Missing application ID")
    ELSE IF ~Exists(rec.applicationId) THEN Respond(rec, 404, "Application not found")
    ELSE IF applications[rec.applicationId].payment_verified
      THEN Respond(rec, 200, "Payment already verified")
    ELSE [rec EXCEPT !.pc = "update"]
  ELSE IF rec.type = EventFailed THEN
    IF rec.applicationId = NULL THEN Respond(rec, 400, "Missing application ID")
    ELSE IF ~Exists(rec.applicationId) THEN Respond(rec, 404, "Application not found")
    ELSE [rec EXCEPT !.pc = "update"]
  ELSE Respond(rec, 200, "received")

WebhookReceive(w, signature, type, applicationId, paymentIntent) ==
  /\ webhook[w].pc = "idle"
  /\ webhook' = [webhook EXCEPT ![w] =
       WebhookResult([WebhookIdle EXCEPT !.signature = signature, !.type = type,
                                         !.applicationId = applicationId,
                                         !.paymentIntent = paymentIntent], signature)]
  /\ UNCHANGED <<store, documents, blobs, intents, reviewPage, dashboard, form, cpi, bulkRelease, paymentForm, authProvider, protectedRoute>>

\* WebhookRow with a failed branch that also clears the verification
WebhookRow_ResetsVerified(rec, old) ==
  IF rec.type = EventSucceeded
    THEN [old EXCEPT !.payment_verified = TRUE,
                     !.payment_verified_at = NewDate(old.payment_verified_at),
                     !.stripe_payment_status = "succeeded",
                     !.stripe_payment_intent_id = rec.paymentIntent,
                     !.current_status = "payment_received"]
    ELSE [old EXCEPT !.stripe_payment_status = "failed",
                     !.payment_verified = FALSE]

\* the row the handler's UPDATE writes
WebhookRow(rec, old) ==
  IF rec.type = EventSucceeded
    THEN [old EXCEPT !.payment_verified = TRUE,
                     !.payment_verified_at = NewDate(old.payment_verified_at),
                     !.stripe_payment_status = "succeeded",
                     !.stripe_payment_intent_id = rec.paymentIntent,
                     !.current_status = "payment_received"]
    ELSE [old EXCEPT !.stripe_payment_status = "failed"]

\* the UPDATE through the service-role client, and the response
WebhookUpdate(w) ==
  /\ webhook[w].pc = "update"
  /\ LET a == webhook[w].applicationId
         new == WebhookRow(webhook[w], applications[a])
         outcome == UpdateOutcome(ServiceRole, a, new) IN
     /\ Room(ServiceRole, a, new)
     /\ (outcome = "applied" /\ webhook[w].type = EventSucceeded)
           => applications[a].payment_verified_at < MaxStamps
     /\ Update(ServiceRole, a, new)
     /\ webhook' = [webhook EXCEPT ![w] =
          IF outcome = "error" THEN Respond(@, 500, "Failed to update application")
                               ELSE Respond(@, 200, "received")]
  /\ UNCHANGED <<documents, blobs, intents, reviewPage, dashboard, form, cpi, bulkRelease, paymentForm, authProvider, protectedRoute>>

(***************************************************************************)
(* create-payment-intent edge function                                     *)
(***************************************************************************)
CpiIds == {"c1", "c2"}

CpiIdle ==
  [pc |-> "idle", user |-> NULL, applicationId |-> NULL,
   stripe_payment_intent_id |-> 0,   \* of the application row as the request read it
   retrieveFailed |-> FALSE,         \* paymentIntents.retrieve threw
   created |-> 0,                    \* the handle this request created, if any
   status |-> 0, body |-> NULL, clientSecret |-> 0]

\* the reuse check is entered under this condition on the row read
ReuseCheckEntered(row) ==
  row.stripe_payment_intent_id # 0 /\ row.stripe_payment_status = "pending"

\* CpiResult with a lookup that leaves out .eq('user_id', user.id)
CpiResult_NoOwnerCheck(rec) ==
  IF rec.user = NULL THEN Respond(rec, 401, "Unauthorized")
  ELSE IF rec.applicationId = NULL THEN Respond(rec, 400, "Application ID is required")
  ELSE IF ~Exists(rec.applicationId)
    THEN Respond(rec, 404, "Application not found")
  ELSE LET row == applications[rec.applicationId] IN
    IF row.current_status # "submitted"
      THEN Respond(rec, 400, "Application must be submitted before creating payment intent")
    ELSE IF row.payment_verified
      THEN Respond(rec, 400, "Payment has already been verified for this application")
    ELSE [rec EXCEPT !.stripe_payment_intent_id = row.stripe_payment_intent_id,
                     !.pc = IF ReuseCheckEntered(row) THEN "retrieve" ELSE "create"]

\* the request up to the end of its SELECT: getUser, applicationId,
\* ownership lookup, eligibility
CpiResult(rec) ==
  IF rec.user = NULL THEN Respond(rec, 401, "Unauthorized")
  ELSE IF rec.applicationId = NULL THEN Respond(rec, 400, "Application ID is required")
  ELSE IF ~Exists(rec.applicationId) \/ applications[rec.applicationId].user_id # rec.user
    THEN Respond(rec, 404, "Application not found")
  ELSE LET row == applications[rec.applicationId] IN
    IF row.current_status # "submitted"
      THEN Respond(rec, 400, "Application must be submitted before creating payment intent")
    ELSE IF row.payment_verified
      THEN Respond(rec, 400, "Payment has already been verified for this application")
    ELSE [rec EXCEPT !.stripe_payment_intent_id = row.stripe_payment_intent_id,
                     !.pc = IF ReuseCheckEntered(row) THEN "retrieve" ELSE "create"]

CpiStart(c, user, applicationId) ==
  /\ cpi[c].pc = "idle"
  /\ cpi' = [cpi EXCEPT ![c] = CpiResult([CpiIdle EXCEPT !.user = user,
                                                      !.applicationId = applicationId])]
  /\ UNCHANGED <<store, documents, blobs, intents, reviewPage, dashboard, form, webhook, bulkRelease, paymentForm, authProvider, protectedRoute>>

\* CpiRetrieve without the inner try/catch: a failing retrieve reaches the
\* outer catch and the request answers 500
CpiRetrieve_NoCatch(c, throws) ==
  /\ cpi[c].pc = "retrieve"
  /\ LET h == cpi[c].stripe_payment_intent_id IN
     cpi' = [cpi EXCEPT ![c] =
       IF throws \/ intents[h].status = NULL
         THEN [Respond(@, 500, "error.message") EXCEPT !.retrieveFailed = TRUE]
       ELSE IF intents[h].status \in UsableIntentStatus
         THEN [Respond(@, 200, "clientSecret") EXCEPT !.clientSecret = client_secret(h)]
       ELSE [@ EXCEPT !.pc = "create"]]
  /\ UNCHANGED <<store, documents, blobs, intents, reviewPage, dashboard, form, webhook, bulkRelease, paymentForm, authProvider, protectedRoute>>

\* stripe.paymentIntents.retrieve inside the try: it throws (the provider
\* call fails, or the id names no handle), or yields the handle's status
CpiRetrieve(c, throws) ==
  /\ cpi[c].pc = "retrieve"
  /\ LET h == cpi[c].stripe_payment_intent_id IN
     cpi' = [cpi EXCEPT ![c] =
       IF throws \/ intents[h].status = NULL
         THEN [@ EXCEPT !.retrieveFailed = TRUE, !.pc = "create"]
       ELSE IF intents[h].status \in UsableIntentStatus
         THEN [Respond(@, 200, "clientSecret") EXCEPT !.clientSecret = client_secret(h)]
       ELSE [@ EXCEPT !.pc = "create"]]
  /\ UNCHANGED <<store, documents, blobs, intents, reviewPage, dashboard, form, webhook, bulkRelease, paymentForm, authProvider, protectedRoute>>

\* stripe.paymentIntents.create
CpiCreate(c) ==
  /\ cpi[c].pc = "create"
  /\ \E h \in HandleIds :
       /\ NextHandle(h)
       /\ intents' = [intents EXCEPT ![h] = [status |-> "requires_payment_method",
                                             applicationId |-> cpi[c].applicationId]]
       /\ cpi' = [cpi EXCEPT ![c].created = h, ![c].pc = "store"]
  /\ UNCHANGED <<store, documents, blobs, reviewPage, dashboard, form, webhook, bulkRelease, paymentForm, authProvider, protectedRoute>>

\* CpiRow that stores the id and leaves stripe_payment_status as it was
CpiRow_KeepsStatus(rec, old) ==
  [old EXCEPT !.stripe_payment_intent_id = rec.created]

\* the row the request stores
CpiRow(rec, old) ==
  [old EXCEPT !.stripe_payment_intent_id = rec.created,
              !.stripe_payment_status = "pending"]

\* the UPDATE (its result is not looked at) and the 200 response
CpiStore(c) ==
  /\ cpi[c].pc = "store"
  /\ LET a == cpi[c].applicationId IN
       Update(ServiceRole, a, CpiRow(cpi[c], applications[a]))
  /\ cpi' = [cpi EXCEPT ![c] =
       [Respond(@, 200, "clientSecret") EXCEPT !.clientSecret = client_secret(cpi[c].created)]]
  /\ UNCHANGED <<documents, blobs, intents, reviewPage, dashboard, form, webhook, bulkRelease, paymentForm, authProvider, protectedRoute>>

(***************************************************************************)
(* StripePaymentWrapper and PaymentForm (components/payment)               *)
(***************************************************************************)
NoPaymentForm ==
  [applicationId |-> NULL,
   clientSecret |-> 0,        \* 0: not mounted
   error |-> NULL,
   paymentSuccess |-> FALSE,
   timer |-> FALSE,           \* the setTimeout(..., 2000) is pending
   onSuccess |-> FALSE]       \* onSuccess() was called

\* the outcomes of stripe.confirmPayment with redirect: 'if_required'
ConfirmOutcomes == {"error", "processing", "succeeded"}

\* the handle the provider resolves a client secret to
HandleOf(secret) == CHOOSE h \in HandleIds : client_secret(h) = secret

\* the wrapper's effect got 200 from create-payment-intent request c and
\* renders PaymentForm with the client secret
StripePaymentWrapperMount(c) ==
  /\ paymentForm.clientSecret = 0
  /\ cpi[c].pc = "done" /\ cpi[c].status = 200
  /\ paymentForm' = [NoPaymentForm EXCEPT !.applicationId = cpi[c].applicationId,
                                          !.clientSecret = cpi[c].clientSecret]
  /\ UNCHANGED <<store, documents, blobs, intents, reviewPage, dashboard, form, webhook, cpi, bulkRelease,
                 authProvider, protectedRoute>>

\* PaymentForm.handleSubmit: confirmPayment, then the error message or the
\* success screen and a 2 s timer
PaymentFormHandleSubmit(outcome) ==
  /\ paymentForm.clientSecret # 0
  /\ ~paymentForm.paymentSuccess
  /\ LET h == HandleOf(paymentForm.clientSecret) IN
     /\ intents[h].status \in UsableIntentStatus
     /\ IF outcome = "error"
          THEN /\ intents' = [intents EXCEPT ![h].status = "requires_payment_method"]
               /\ paymentForm' = [paymentForm EXCEPT !.error = "Payment failed"]
          ELSE /\ intents' = [intents EXCEPT ![h].status = outcome]
               /\ paymentForm' = [paymentForm EXCEPT !.error = NULL,
                                                     !.paymentSuccess = TRUE,
                                                     !.timer = TRUE]
  /\ UNCHANGED <<store, documents, blobs, reviewPage, dashboard, form, webhook, cpi, bulkRelease,
                 authProvider, protectedRoute>>

\* the timer fires: onSuccess()
PaymentFormTimer ==
  /\ paymentForm.timer
  /\ paymentForm' = [paymentForm EXCEPT !.timer = FALSE, !.onSuccess = TRUE]
  /\ UNCHANGED <<store, documents, blobs, intents, reviewPage, dashboard, form, webhook, cpi, bulkRelease,
                 authProvider, protectedRoute>>

(***************************************************************************)
(* AuthProvider (contexts/AuthContext.tsx) and ProtectedRoute              *)
(***************************************************************************)
\* profile fetches a model run may start
MaxFetches == 2

Roles == {"applicant", "reviewer", "admin"}

\* a null profile, and the profiles row of a user
NoProfile == [id |-> NULL, role |-> NULL]
ProfileOf(uid) == [id |-> uid, role |-> Profiles[uid]]

\* the provider after its first render: useState defaults, getSession()
\* called and not yet resolved, the listener subscribed
AuthMounted ==
  [user |-> NULL, profile |-> NoProfile, loading |-> TRUE,
   getSession |-> "pending",
   clientSession |-> NULL,    \* the session user supabase.auth holds
   event |-> NULL,            \* the last event the listener handled
   fetches |-> {},            \* fetchProfile calls in flight
   started |-> 0]

\* a fetchProfile call: `initial` marks the one getSession().then started
StartFetch(rec, uid, initial) ==
  [rec EXCEPT !.fetches = @ \cup {[n |-> rec.started + 1, userId |-> uid, initial |-> initial]},
              !.started = @ + 1]

\* getSession().then(...)
GetSessionResolve ==
  /\ authProvider.getSession = "pending"
  /\ authProvider.started < MaxFetches
  /\ LET u == authProvider.clientSession
         rec == [authProvider EXCEPT !.getSession = "done", !.user = u] IN
     authProvider' = IF u # NULL THEN StartFetch(rec, u, TRUE)
                                 ELSE [rec EXCEPT !.loading = FALSE]
  /\ UNCHANGED <<store, documents, blobs, intents, reviewPage, dashboard, form, webhook, cpi,
                 bulkRelease, paymentForm, protectedRoute>>

\* the onAuthStateChange listener: SIGNED_IN carries a session, SIGNED_OUT
\* carries null
AuthStateChange(event, u) ==
  /\ authProvider.started < MaxFetches
  /\ \/ event = "SIGNED_IN" /\ u \in Users /\ authProvider.clientSession = NULL
     \/ event = "SIGNED_OUT" /\ u = NULL /\ authProvider.clientSession # NULL
  /\ LET rec == [authProvider EXCEPT !.clientSession = u, !.event = event, !.user = u] IN
     authProvider' = IF u # NULL THEN StartFetch(rec, u, FALSE)
                                 ELSE [rec EXCEPT !.profile = NoProfile]
  /\ UNCHANGED <<store, documents, blobs, intents, reviewPage, dashboard, form, webhook, cpi,
                 bulkRelease, paymentForm, protectedRoute>>

\* fetchProfile(...).then(...): the row, or null when the select failed
FetchProfileResolve(f, failed) ==
  /\ f \in authProvider.fetches
  /\ authProvider' = [authProvider EXCEPT
       !.fetches = @ \ {f},
       !.profile = IF failed THEN NoProfile ELSE ProfileOf(f.userId),
       !.loading = IF f.initial THEN FALSE ELSE @]
  /\ UNCHANGED <<store, documents, blobs, intents, reviewPage, dashboard, form, webhook, cpi,
                 bulkRelease, paymentForm, protectedRoute>>

\* the allowedRoles prop: absent, or a list of roles
NoRoles == [given |-> FALSE, roles |-> {}]

\* ProtectedRoute that sends a user without a profile away from a
\* role-restricted route
ProtectedRoute_NeedsProfile(loading, user, profile, allowedRoles) ==
  IF loading THEN "loading"
  ELSE IF user = NULL THEN "/login"
  ELSE IF allowedRoles.given /\ profile.role \notin allowedRoles.roles THEN "/"
  ELSE "children"

\* what ProtectedRoute returns
ProtectedRoute(loading, user, profile, allowedRoles) ==
  IF loading THEN "loading"
  ELSE IF user = NULL THEN "/login"
  ELSE IF allowedRoles.given /\ profile # NoProfile /\ profile.role \notin allowedRoles.roles
    THEN "/"
  ELSE "children"

NoRoute ==
  [loading |-> TRUE, user |-> NULL, profile |-> NoProfile, allowedRoles |-> NoRoles,
   outcome |-> NULL]

\* the routes of App.tsx use no roles, one role or two
RouteRoles ==
  {NoRoles} \cup {[given |-> TRUE, roles |-> rs] : rs \in {{r} : r \in Roles} \cup {{"reviewer", "admin"}}}

\* a route element renders with the provider's current value
ProtectedRouteRender(allowedRoles) ==
  /\ protectedRoute' =
       [loading |-> authProvider.loading, user |-> authProvider.user,
        profile |-> authProvider.profile, allowedRoles |-> allowedRoles,
        outcome |-> ProtectedRoute(authProvider.loading, authProvider.user,
                                   authProvider.profile, allowedRoles)]
  /\ UNCHANGED <<store, documents, blobs, intents, reviewPage, dashboard, form, webhook, cpi,
                 bulkRelease, paymentForm, authProvider>>

(***************************************************************************)
(* Initial states                                                          *)
(***************************************************************************)
\* pages closed, no request in flight, provider without handles
InitRest ==
  /\ intents = [h \in HandleIds |-> NoIntent]
  /\ reviewPage = [r \in Staff |-> NoReviewPage]
  /\ dashboard = [a \in {} |-> DashboardView(NewRow(NULL))]
  /\ form = NoForm
  /\ webhook = [w \in WebhookIds |-> WebhookIdle]
  /\ cpi = [c \in CpiIds |-> CpiIdle]
  /\ bulkRelease = NoBulkRelease
  /\ paymentForm = NoPaymentForm
  /\ authProvider = AuthMounted
  /\ protectedRoute = NoRoute

\* the database after schema.sql and the migrations: no rows
Init ==
  /\ applications = [a \in {} |-> NewRow(NULL)]
  /\ history = [a \in AppIds |-> <<>>]
  /\ documents = {}
  /\ blobs = {}
  /\ InitRest

\* u1 has created application a1 (createNewApplication)
InitDraft ==
  /\ applications = [a \in {"a1"} |-> NewRow("u1")]
  /\ history = [a \in AppIds |-> <<>>]
  /\ documents = {}
  /\ blobs = {}
  /\ InitRest

\* forms used where the payload is not what is examined
ZelleForm ==
  [first_name |-> "Ann", applying_for_financial_aid |-> "no",
   financial_circumstances_overview |-> "", payment_method |-> "zelle",
   payment_certification |-> "text"]
StripeForm ==
  [first_name |-> "Ann", applying_for_financial_aid |-> "no",
   financial_circumstances_overview |-> "", payment_method |-> "stripe",
   payment_certification |-> ""]
BlankForm ==
  [first_name |-> "", applying_for_financial_aid |-> NULL,
   financial_circumstances_overview |-> "", payment_method |-> NULL,
   payment_certification |-> ""]
SampleForms == {ZelleForm, StripeForm, BlankForm}

\* u1 has created a1 and uploaded its application document (handleFileUpload)
InitReady ==
  /\ applications = [a \in {"a1"} |-> NewRow("u1")]
  /\ history = [a \in AppIds |-> <<>>]
  /\ documents = {[id |-> 1, application_id |-> "a1", file_path |-> 1, file_type |-> "application"]}
  /\ blobs = {1}
  /\ InitRest

\* ... and submitted it with the card payment method (handleSubmit)
InitSubmitted ==
  /\ applications = [a \in {"a1"} |-> SubmitRow(NewRow("u1"), StripeForm)]
  /\ history = [a \in AppIds |->
                  IF a = "a1" THEN <<[old_status |-> "draft", new_status |-> "submitted",
                                      changed_by |-> "u1"]>>
                              ELSE <<>>]
  /\ documents = {[id |-> 1, application_id |-> "a1", file_path |-> 1, file_type |-> "application"]}
  /\ blobs = {1}
  /\ InitRest

\* an application in review: submitted with the attestation method, verified
\* and advanced by reviewer r1
InReviewRow(uid) ==
  [VerifyPaymentRow("r1", SubmitRow(NewRow(uid), ZelleForm)) EXCEPT !.current_status = "in_review"]

InReviewHistory ==
  <<[old_status |-> "draft", new_status |-> "submitted", changed_by |-> "u1"],
    [old_status |-> "submitted", new_status |-> "payment_received", changed_by |-> "r1"],
    [old_status |-> "payment_received", new_status |-> "in_review", changed_by |-> "r1"]>>

\* a1 (of u1) and a2 (of u2) are both in review, no decision recorded yet
InitReview ==
  /\ applications = [a \in AppIds |-> InReviewRow(IF a = "a1" THEN "u1" ELSE "u2")]
  /\ history = [a \in AppIds |->
                  [i \in 1..3 |-> IF i = 1 /\ a # "a1"
                                    THEN [InReviewHistory[i] EXCEPT !.changed_by = "u2"]
                                    ELSE InReviewHistory[i]]]
  /\ documents = {[id |-> 1, application_id |-> "a1", file_path |-> 1, file_type |-> "application"],
                  [id |-> 2, application_id |-> "a2", file_path |-> 2, file_type |-> "application"]}
  /\ blobs = {1, 2}
  /\ InitRest

\* the form page: load, save, submit
FormActions(users, apps, forms) ==
  \/ \E uid \in users, a \in apps : FormFetchApplication(uid, a)
  \/ \E f \in forms : saveProgress(f)
  \/ \E f \in forms : handleSubmit(f)

\* the form page: documents
DocumentActions ==
  \/ \E t \in UploadTypes, isPdf \in BOOLEAN, sizeOk \in BOOLEAN : handleFileUpload(t, isPdf, sizeOk)
  \/ \E d \in documents \cup form.documents : handleDeleteDocument(d)

\* the review page without its status dropdown
ReviewActions(staff, apps) ==
  \/ \E r \in staff, a \in apps : ReviewFetchApplication(r, a)
  \/ \E r \in staff : handleVerifyPayment(r)
  \/ \E r \in staff : handleAdvanceToReview(r)
  \/ \E r \in staff, d \in Decisions : handleSaveDecision(r, d)
  \/ \E r \in staff : handleReleaseThisDecision(r)

\* the dashboard without its status dropdown; `failures` are the sets of
\* rows a "Release All" may find refused
DashboardActions(failures) ==
  \/ fetchApplications
  \/ \E a \in AppIds : releaseDecision(a)
  \/ \E failing \in failures : releaseAllDecisions(failing)

\* the status dropdowns
OverrideActions(staff) ==
  \/ \E r \in staff, s \in ApplicationStatus : ReviewHandleStatusChange(r, s)
  \/ \E a \in AppIds, s \in ApplicationStatus : DashboardHandleStatusChange(a, s)

\* deliveries of events of the given types that name the given applications
\* and handles in their metadata
WebhookActions(ws, sigs, types, apps, handles) ==
  \/ \E w \in ws, sig \in sigs, t \in types, a \in apps, h \in handles :
       WebhookReceive(w, sig, t, a, h)
  \/ \E w \in ws : WebhookUpdate(w)

\* create-payment-intent requests by the given callers for the given
\* applications, and the provider moving handles to the given statuses
CpiActions(cs, users, apps, statuses) ==
  \/ \E c \in cs, u \in users, a \in apps : CpiStart(c, u, a)
  \/ \E c \in cs, throws \in BOOLEAN : CpiRetrieve(c, throws)
  \/ \E c \in cs : CpiCreate(c)
  \/ \E c \in cs : CpiStore(c)
  \/ \E h \in HandleIds, s \in statuses : StripeTransition(h, s)

\* the guarded operations (no status dropdown): the applicant's form, a
\* review page, the dashboard and the webhook
NextGuarded ==
  \/ FormActions(Applicants, AppIds, {StripeForm, ZelleForm})
  \/ ReviewActions({"r1"}, AppIds)
  \/ DashboardActions({{}})
  \/ WebhookActions({"w1"}, {"valid"}, {EventSucceeded}, AppIds \cup {NULL}, HandleIds)

SpecGuarded == InitReady /\ [][NextGuarded]_vars

\* the payment-received paths on a submitted application: two webhook
\* deliveries and a reviewer
NextPayment ==
  \/ ReviewActions({"r1"}, AppIds)
  \/ WebhookActions(WebhookIds, Signatures, EventTypes, AppIds \cup {NULL}, HandleIds)

SpecPayment == InitSubmitted /\ [][NextPayment]_vars

\* create-payment-intent requests against the provider, with the webhook
\* and a reviewer acting on the same application
NextIntent ==
  \/ CpiActions(CpiIds, Applicants \cup {NULL}, AppIds \cup {NULL}, IntentStatus)
  \/ WebhookActions({"w1"}, {"valid"}, {EventSucceeded, EventFailed}, AppIds \cup {NULL}, HandleIds)
  \/ \E r \in {"r1"}, a \in AppIds : ReviewFetchApplication(r, a)
  \/ \E r \in {"r1"} : handleVerifyPayment(r)

SpecIntent == InitSubmitted /\ [][NextIntent]_vars

\* the guarded operations together with the payment path, all on one
\* application: its owner's form and requests, a review page, the
\* dashboard's row release, both webhook events, a handle that may be canceled
NextOps ==
  \/ FormActions({"u1"}, {"a1"}, {StripeForm})
  \/ ReviewActions({"r1"}, {"a1"})
  \/ fetchApplications
  \/ \E a \in {"a1"} : releaseDecision(a)
  \/ WebhookActions({"w1"}, {"valid"}, {EventSucceeded, EventFailed}, {"a1"}, {1})
  \/ CpiActions(CpiIds, {"u1"}, {"a1"}, {"canceled"})

SpecOps == InitReady /\ [][NextOps]_vars

\* decisions and releases on two applications in review: a review page,
\* the dashboard with its status dropdown, and a "Release All" whose
\* statement the database may refuse
NextRelease ==
  \/ \E r \in {"r1"}, a \in AppIds : ReviewFetchApplication(r, a)
  \/ \E r \in {"r1"}, d \in Decisions : handleSaveDecision(r, d)
  \/ \E r \in {"r1"} : handleReleaseThisDecision(r)
  \/ DashboardActions(SUBSET AppIds)
  \/ \E a \in AppIds, st \in ApplicationStatus : DashboardHandleStatusChange(a, st)

SpecRelease == InitReview /\ [][NextRelease]_vars

\* what an applicant may have typed: every combination of filled and empty
\* fields
SubmitForms == {f \in FormValues : f.first_name # "Bea"}

\* the applicant's form with its documents, on a draft
NextSubmit ==
  \/ FormActions({"u1"}, {"a1"}, SubmitForms)
  \/ DocumentActions

SpecSubmit == InitReady /\ [][NextSubmit]_vars

\* ... while a staff member moves the application between draft and
\* submitted with the review page's status dropdown
NextDraft ==
  \/ FormActions({"u1"}, {"a1"}, {StripeForm, ZelleForm})
  \/ DocumentActions
  \/ \E r \in {"r1"}, a \in {"a1"} : ReviewFetchApplication(r, a)
  \/ \E r \in {"r1"}, st \in {"draft", "submitted"} : ReviewHandleStatusChange(r, st)

SpecDraft == InitReady /\ [][NextDraft]_vars

\* writers of current_status on one application: the owner's submit, a
\* reviewer's verify-payment, the dashboard's status dropdown, and the
\* webhook
NextHistory ==
  \/ \E uid \in {"u1"}, a \in {"a1"} : FormFetchApplication(uid, a)
  \/ \E f \in {ZelleForm} : handleSubmit(f)
  \/ \E r \in {"r1"}, a \in {"a1"} : ReviewFetchApplication(r, a)
  \/ \E r \in {"r1"} : handleVerifyPayment(r)
  \/ fetchApplications
  \/ \E a \in {"a1"}, st \in {"draft", "submitted", "payment_received"} : DashboardHandleStatusChange(a, st)
  \/ WebhookActions({"w1"}, {"valid"}, {EventSucceeded}, {"a1"}, {1})

SpecHistory == InitReady /\ [][NextHistory]_vars

\* the card payment of a submitted application: the payment form with its
\* create-payment-intent request, the webhook, and a reviewer who may verify
\* the payment by hand
NextPay ==
  \/ \E c \in CpiIds, u \in {"u1"}, a \in {"a1"} : CpiStart(c, u, a)
  \/ \E c \in CpiIds, throws \in BOOLEAN : CpiRetrieve(c, throws)
  \/ \E c \in CpiIds : CpiCreate(c)
  \/ \E c \in CpiIds : CpiStore(c)
  \/ \E c \in CpiIds : StripePaymentWrapperMount(c)
  \/ \E o \in ConfirmOutcomes : PaymentFormHandleSubmit(o)
  \/ PaymentFormTimer
  \/ WebhookActions({"w1"}, {"valid"}, {EventSucceeded}, {"a1"}, HandleIds)
  \/ \E r \in {"r1"}, a \in {"a1"} : ReviewFetchApplication(r, a)
  \/ \E r \in {"r1"} : handleVerifyPayment(r)

SpecPay == InitSubmitted /\ [][NextPay]_vars

\* applications from their creation on: an applicant creates them, uploads
\* the application document and submits; the admin moves the first one with
\* the dashboard's status dropdown
NextAudit ==
  \/ \E uid \in {"u1"} : createNewApplication(uid)
  \/ \E uid \in {"u1"}, a \in AppIds : FormFetchApplication(uid, a)
  \/ \E f \in {ZelleForm} : handleSubmit(f)
  \/ \E t \in {"application"}, isPdf \in {TRUE}, sizeOk \in {TRUE} : handleFileUpload(t, isPdf, sizeOk)
  \/ fetchApplications
  \/ \E a \in {"a1"}, st \in ApplicationStatus : DashboardHandleStatusChange(a, st)

SpecAudit == Init /\ [][NextAudit]_vars

\* payment forms mounted twice: two create-payment-intent requests of
\* applicants, whose retrieve calls succeed, with no webhook and no provider
\* transition in between
NextRace ==
  \/ \E c \in CpiIds, u \in Applicants, a \in AppIds : CpiStart(c, u, a)
  \/ \E c \in CpiIds, throws \in {FALSE} : CpiRetrieve(c, throws)
  \/ \E c \in CpiIds : CpiCreate(c)
  \/ \E c \in CpiIds : CpiStore(c)
  \/ \E c \in CpiIds : StripePaymentWrapperMount(c)
  \/ \E r \in {"r1"}, a \in AppIds : ReviewFetchApplication(r, a)

SpecRace == InitSubmitted /\ [][NextRace]_vars

\* the auth provider with sign-ins and sign-outs, and routes rendering from it
NextAuth ==
  \/ GetSessionResolve
  \/ \E e \in {"SIGNED_IN", "SIGNED_OUT"}, u \in Users \cup {NULL} : AuthStateChange(e, u)
  \/ \E f \in authProvider.fetches, failed \in BOOLEAN : FetchProfileResolve(f, failed)
  \/ \E roles \in RouteRoles : ProtectedRouteRender(roles)

SpecAuth == InitReady /\ [][NextAuth]_vars

(***************************************************************************)
(* Properties                                                              *)
(***************************************************************************)
GuardedEdges ==
  {<<"draft", "submitted">>, <<"submitted", "payment_received">>,
   <<"payment_received", "in_review">>, <<"in_review", "decision_released">>}

\* C1: without the status dropdown, every change of current_status made by
\* submit, verify-payment, the webhook, advance, release and bulk release is
\* one of the four guarded edges, stale views included.
C1_OnlyGuardedEdges ==
  [][\A a \in DOMAIN applications :
       applications'[a].current_status # applications[a].current_status
         => <<applications[a].current_status, applications'[a].current_status>> \in GuardedEdges]_vars

\* the step in which delivery w receives its request
Arrives(w) == webhook[w].pc = "idle" /\ webhook'[w].pc # "idle"

\* the step in which delivery w runs its UPDATE
Updates(w) == webhook[w].pc = "update" /\ webhook'[w].pc = "done"

\* delivery v has handled a validly signed payment-succeeded event for a
HandledSucceeded(v, a) ==
  /\ webhook[v].pc = "done"
  /\ webhook[v].type = EventSucceeded
  /\ webhook[v].applicationId = a
  /\ webhook[v].status # 400

\* C2: the same payment-succeeded event delivered twice in sequence for a
\* submitted, unverified application: after both, payment_verified is true
\* and one history row was appended in total; the second delivery answers
\* 200 "already verified" and writes nothing.
C2_SecondDeliveryIsNoOp ==
  [][\A v, w \in WebhookIds : \A a \in DOMAIN applications :
       ( /\ v # w
         /\ HandledSucceeded(v, a)
         /\ applications[a].payment_verified_by = NULL    \* no reviewer verified it
         /\ Arrives(w)
         /\ webhook'[w].type = EventSucceeded
         /\ webhook'[w].applicationId = a
         /\ webhook'[w].paymentIntent = webhook[v].paymentIntent
         /\ webhook'[w].status # 400 )
       => ( /\ webhook'[w].pc = "done"
            /\ webhook'[w].status = 200
            /\ webhook'[w].body = "Payment already verified"
            /\ applications'[a] = applications[a]
            /\ applications'[a].payment_verified
            /\ Len(history'[a]) = 2 )]_vars

\* delivery w applied the payment-received update to a
WebhookApplied(w, a) ==
  /\ webhook[w].pc = "done"
  /\ webhook[w].type = EventSucceeded
  /\ webhook[w].applicationId = a
  /\ webhook[w].status = 200
  /\ webhook[w].body = "received"

\* C3: two webhook deliveries, or a delivery racing a manual verify-payment,
\* never both apply the payment-received update: where a delivery applied
\* it, the row was stamped once.
C3_PaymentEffectAtMostOnce ==
  \A a \in DOMAIN applications :
    (\E w \in WebhookIds : WebhookApplied(w, a)) => applications[a].payment_verified_at <= 1

\* C4: payment_verified is monotonic: no operation sets it back to false.
C4_PaymentVerifiedMonotonic ==
  [][\A a \in DOMAIN applications :
       applications[a].payment_verified => applications'[a].payment_verified]_vars

\* C4 witness: a verified application on which a payment-failed event, the
\* review and the release have acted since
C4_Witness ==
  \E a \in DOMAIN applications :
    /\ applications[a].payment_verified
    /\ applications[a].stripe_payment_status = "failed"
    /\ applications[a].current_status = "decision_released"

\* C5: a validly signed payment-succeeded event for a submitted, unverified
\* application answers 200 and leaves the row verified, stamped, 'succeeded',
\* payment_received, with one history row submitted -> payment_received that
\* names an actor.
C5_SucceededEventApplies ==
  [][\A w \in WebhookIds :
       LET a == webhook[w].applicationId IN
       ( /\ Updates(w)
         /\ webhook[w].type = EventSucceeded
         /\ ~applications[a].payment_verified
         /\ applications[a].current_status = "submitted" )
       => ( /\ webhook'[w].status = 200
            /\ applications'[a].payment_verified
            /\ applications'[a].payment_verified_at # 0
            /\ applications'[a].stripe_payment_status = "succeeded"
            /\ applications'[a].current_status = "payment_received"
            /\ Len(history'[a]) = Len(history[a]) + 1
            /\ LET h == history'[a][Len(history'[a])] IN
                 /\ h.old_status = "submitted"
                 /\ h.new_status = "payment_received"
                 /\ h.changed_by # NULL )]_vars

\* C6: a payment-failed event leaves payment_verified and current_status as
\* they are, and changes stripe_payment_status only on an application that
\* is not payment-verified.
C6_FailedEventFrame ==
  [][\A w \in WebhookIds :
       LET a == webhook[w].applicationId IN
       (Updates(w) /\ webhook[w].type = EventFailed)
       => ( /\ applications'[a].payment_verified = applications[a].payment_verified
            /\ applications'[a].current_status = applications[a].current_status
            /\ applications[a].payment_verified
                 => applications'[a].stripe_payment_status = applications[a].stripe_payment_status )]_vars

\* the step in which request c passes its eligibility checks and settles
\* between reusing the stored handle and creating one
Decides(c) ==
  /\ cpi[c].pc \in {"idle", "retrieve"}
  /\ cpi'[c].pc \in {"create", "done"}
  /\ cpi'[c].status \in {0, 200}

\* the handle the application references, as request c reads it
StoredHandle(c) ==
  IF cpi[c].pc = "idle" THEN applications[cpi'[c].applicationId].stripe_payment_intent_id
  ELSE cpi[c].stripe_payment_intent_id

\* request c answers with handle h and creates none
Reuses(c, h) ==
  /\ cpi'[c].pc = "done"
  /\ cpi'[c].status = 200
  /\ cpi'[c].clientSecret = client_secret(h)
  /\ cpi'[c].created = 0
  /\ intents' = intents

\* an earlier request for a created handle h and completed
FirstRequest(c, a, h) ==
  \E c0 \in CpiIds \ {c} :
    /\ cpi[c0].pc = "done"
    /\ cpi[c0].applicationId = a
    /\ cpi[c0].created = h

\* C7: after a first request created and stored a handle, a second request
\* (whose retrieve succeeds) answers with the same client secret and creates
\* no handle while the handle is usable; when the handle is canceled it
\* creates a new one and stores the new id over the old.
C7_SecondRequestReuses ==
  [][\A c \in CpiIds :
       /\ ( /\ Decides(c)
            /\ ~cpi'[c].retrieveFailed
            /\ StoredHandle(c) # 0
            /\ FirstRequest(c, cpi'[c].applicationId, StoredHandle(c)) )
          => LET h == StoredHandle(c) IN
               /\ intents[h].status \in UsableIntentStatus => Reuses(c, h)
               /\ intents[h].status = "canceled" => cpi'[c].pc = "create"
       /\ ( /\ cpi[c].pc = "store" /\ cpi'[c].pc = "done"
            /\ cpi[c].stripe_payment_intent_id # 0
            /\ FirstRequest(c, cpi[c].applicationId, cpi[c].stripe_payment_intent_id) )
          => LET a == cpi[c].applicationId IN
               /\ cpi[c].created # cpi[c].stripe_payment_intent_id
               /\ applications'[a].stripe_payment_intent_id = cpi[c].created]_vars

\* C8: an eligible request (whose retrieve does not fail) on an application
\* that references a handle in a usable provider status answers with that
\* handle and creates none, also after a payment-failed event was processed.
C8_UsableHandleReused ==
  [][\A c \in CpiIds :
       ( /\ Decides(c)
         /\ ~cpi'[c].retrieveFailed
         /\ StoredHandle(c) # 0
         /\ intents[StoredHandle(c)].status \in UsableIntentStatus )
       => Reuses(c, StoredHandle(c))]_vars

C10_Rejections ==
  [][\A c \in CpiIds :
       (cpi[c].pc = "idle" /\ cpi'[c].pc # "idle") =>
         LET r == cpi'[c]
             u == r.user
             a == r.applicationId
             owned == u # NULL /\ a # NULL /\ Exists(a) /\ applications[a].user_id = u
             nothingDone == /\ r.pc = "done"
                            /\ r.created = 0 /\ r.clientSecret = 0
                            /\ intents' = intents
                            /\ applications' = applications
                            /\ history' = history
         IN /\ u = NULL => r.status = 401 /\ nothingDone
            /\ (u # NULL /\ a = NULL) => r.status = 400 /\ nothingDone
            /\ (u # NULL /\ a # NULL /\ ~owned) => r.status = 404 /\ nothingDone
            /\ (owned /\ (applications[a].current_status # "submitted"
                          \/ applications[a].payment_verified))
                 => r.status = 400 /\ nothingDone]_vars

\* C10 witness: one request was rejected for an application that is not
\* the caller's, another for an application that is no longer submitted
C10_Witness ==
  \E c, d \in CpiIds :
    /\ cpi[c].pc = "done" /\ cpi[c].status = 404 /\ cpi[c].applicationId \in DOMAIN applications
    /\ cpi[d].pc = "done" /\ cpi[d].status = 400 /\ cpi[d].applicationId \in DOMAIN applications
    /\ cpi[d].user = applications[cpi[d].applicationId].user_id

\* C11: a request whose signature header is missing or does not verify is
\* answered 400 and ends there, whatever its event type and payload; it
\* changes no table and no stored file.
C11_BadSignatureRejected ==
  [][\A w \in WebhookIds :
       (Arrives(w) /\ webhook'[w].signature # "valid")
       => ( /\ webhook'[w].pc = "done"
            /\ webhook'[w].status = 400
            /\ UNCHANGED <<applications, history, documents, blobs>> )]_vars

\* C11 witness: a payment-succeeded event for an existing, unverified
\* application arrived with a signature that does not verify
C11_Witness ==
  \E w \in WebhookIds :
    /\ webhook[w].pc = "done"
    /\ webhook[w].signature = "invalid"
    /\ webhook[w].type = EventSucceeded
    /\ webhook[w].applicationId \in DOMAIN applications
    /\ ~applications[webhook[w].applicationId].payment_verified

\* C12: a validly signed payment-succeeded or payment-failed event without
\* metadata.applicationId is answered 400, one whose applicationId names no
\* application 404; neither modifies an application row.
C12_MissingOrUnknownApplication ==
  [][\A w \in WebhookIds :
       ( /\ Arrives(w)
         /\ webhook'[w].signature = "valid"
         /\ webhook'[w].type \in {EventSucceeded, EventFailed}
         /\ webhook'[w].applicationId \notin DOMAIN applications )
       => ( /\ webhook'[w].pc = "done"
            /\ webhook'[w].status = IF webhook'[w].applicationId = NULL THEN 400 ELSE 404
            /\ applications' = applications )]_vars

\* C12 witness: one event without an applicationId and one for an unknown
\* application were answered
C12_Witness ==
  \E v, w \in WebhookIds :
    /\ webhook[v].pc = "done" /\ webhook[v].signature = "valid"
    /\ webhook[v].type = EventFailed /\ webhook[v].applicationId = NULL
    /\ webhook[w].pc = "done" /\ webhook[w].signature = "valid"
    /\ webhook[w].type = EventSucceeded
    /\ webhook[w].applicationId \notin DOMAIN applications \cup {NULL}

\* C13: a validly signed event of a type other than payment-succeeded and
\* payment-failed is answered 200 {received: true} and modifies no
\* application, whatever it carries.
C13_UnknownEventAcknowledged ==
  [][\A w \in WebhookIds :
       ( /\ Arrives(w)
         /\ webhook'[w].signature = "valid"
         /\ webhook'[w].type \notin {EventSucceeded, EventFailed} )
       => ( /\ webhook'[w].pc = "done"
            /\ webhook'[w].status = 200
            /\ webhook'[w].body = "received"
            /\ applications' = applications )]_vars

\* C13 witness: an event of another type that names an existing application
\* was acknowledged
C13_Witness ==
  \E w \in WebhookIds :
    /\ webhook[w].pc = "done"
    /\ webhook[w].signature = "valid"
    /\ webhook[w].type \notin {EventSucceeded, EventFailed}
    /\ webhook[w].applicationId \in DOMAIN applications
    /\ webhook[w].status = 200

\* in review with a decision recorded
ReleaseEligible(a) ==
  applications[a].current_status = "in_review" /\ applications[a].decision # NULL

C15_BulkReleaseIndependent ==
  [][\A failing \in SUBSET AppIds :
       releaseAllDecisions(failing) =>
         /\ \A a \in DOMAIN applications :
              (ReleaseEligible(a) /\ a \notin failing)
                 => applications'[a].current_status = "decision_released"
         /\ bulkRelease'.failed = failing
         /\ failing # {} /\ failing # {a \in DOMAIN applications : ReleaseEligible(a)}
              => bulkRelease'.alert # "Failed to release decisions. Please try again."]_vars

\* C20: a decision is written only to an application that is in_review at
\* the time of the write, and the write leaves current_status as it is.
C20_DecisionOnlyInReview ==
  [][\A a \in DOMAIN applications :
       applications'[a].decision # applications[a].decision
         => /\ applications[a].current_status = "in_review"
            /\ applications'[a].current_status = applications[a].current_status]_vars

\* the step of the end-to-end scenario a review page offers for what it shows
ScenarioStepShown(view) ==
  CASE view.current_status = "submitted" /\ ~view.payment_verified -> VerifyPaymentShown(view)
    [] view.current_status = "payment_received" -> view.current_status = "payment_received"
    [] view.current_status = "in_review" /\ view.decision = NULL -> SaveDecisionShown(view, "accepted")
    [] view.current_status = "in_review" /\ view.decision # NULL -> view.decision # NULL
    [] OTHER -> TRUE

\* C16: the scenario submit; verify-payment; advance; record accepted;
\* release is executable through the pages' actions: a review page that
\* shows the application at a stage of the scenario (submitted and not yet
\* verified; payment_received; in_review) offers the scenario's next step.
C16_ScenarioExecutable ==
  \A r \in Staff :
    reviewPage[r].id # NULL => ScenarioStepShown(reviewPage[r].application)

\* the row without the columns the payment-info policy lets the owner change
\* after submission
OtherColumns(row) ==
  [row EXCEPT !.payment_method = NULL, !.payment_certification = NULL]

\* a step of the applicant's form page
FormRequest ==
  \/ \E f \in SampleForms : saveProgress(f) \/ handleSubmit(f)
  \/ DocumentActions

\* C17: document upload, document delete and full-field edits take effect
\* only on a draft: a request of the form page against an application that
\* is not a draft changes neither the application row (beyond its payment
\* columns), nor the document rows, nor the stored blobs.
C17_DraftMutability ==
  [][(FormRequest /\ form.id # NULL /\ applications[form.id].current_status # "draft")
       => /\ OtherColumns(applications'[form.id]) = OtherColumns(applications[form.id])
          /\ documents' = documents
          /\ blobs' = blobs]_vars

\* the primary documents stored for an application
PrimaryDocuments(a) ==
  {d \in documents : d.application_id = a /\ d.file_type = "application"}

\* what a submitted row must hold
SubmittedRowComplete(row) ==
  /\ row.first_name \notin {NULL, ""}
  /\ row.applying_for_financial_aid # NULL
  /\ row.applying_for_financial_aid = "no" =>
       /\ row.payment_method # NULL
       /\ row.payment_method = "zelle" => row.payment_certification \notin {NULL, ""}

\* C19: draft -> submitted is applied only if, when it is applied, the
\* required fields are present, exactly one primary ('application')
\* document exists, the financial-aid answer is present and, without aid, a
\* payment method is chosen, with attestation text for zelle.
C19_SubmitPreconditions ==
  [][\A a \in DOMAIN applications :
       (applications[a].current_status = "draft" /\ applications'[a].current_status = "submitted")
         => /\ SubmittedRowComplete(applications'[a])
            /\ Cardinality(PrimaryDocuments(a)) = 1]_vars

\* C18: an update that changes current_status appends, in the same step,
\* exactly one history row holding the old and the new status; a step that
\* leaves current_status unchanged appends none; and the rows already in
\* the history stay as they are.
C18_HistoryFollowsStatus ==
  [][\A a \in DOMAIN applications :
       LET old == applications[a].current_status
           new == applications'[a].current_status IN
       /\ Len(history'[a]) >= Len(history[a])
       /\ SubSeq(history'[a], 1, Len(history[a])) = history[a]
       /\ old # new =>
            /\ Len(history'[a]) = Len(history[a]) + 1
            /\ history'[a][Len(history'[a])].old_status = old
            /\ history'[a][Len(history'[a])].new_status = new
       /\ old = new => history'[a] = history[a]]_vars

\* a1 was submitted by its owner, moved on by a staff member and then set
\* back with a status dropdown; each change is in the history
C18_Witness ==
  /\ Len(history["a1"]) >= 3
  /\ history["a1"][1] = [old_status |-> "draft", new_status |-> "submitted", changed_by |-> "u1"]
  /\ \E i \in 2..Len(history["a1"]) :
       /\ history["a1"][i].changed_by \in Staff
       /\ history["a1"][i].new_status = "draft"
  /\ applications["a1"].current_status = history["a1"][Len(history["a1"])].new_status

\* C21: every release is applied to an application whose decision is set
\* and stamps the release time with the status: an application in
\* decision_released has a decision and a release timestamp.
C21_ReleasedHasDecisionAndStamp ==
  \A a \in DOMAIN applications :
    applications[a].current_status = "decision_released"
      => /\ applications[a].decision # NULL
         /\ applications[a].decision_released_at # 0

C23_SuccessAfterVerified ==
  [][(~paymentForm.onSuccess /\ paymentForm'.onSuccess)
       => applications[paymentForm.applicationId].payment_verified]_vars

\* C24: ProtectedRoute shows the loading indicator while loading; else
\* redirects to /login without a user; else redirects to / when
\* allowedRoles is given and a profile is present whose role is not
\* allowed; and renders the children in every other case, a user without
\* a profile on a role-restricted route included.
C24_ProtectedRouteOutcome ==
  LET v == protectedRoute IN
  v.outcome # NULL =>
    /\ v.loading => v.outcome = "loading"
    /\ (~v.loading /\ v.user = NULL) => v.outcome = "/login"
    /\ (~v.loading /\ v.user # NULL /\ v.allowedRoles.given
          /\ v.profile.role # NULL /\ v.profile.role \notin v.allowedRoles.roles) => v.outcome = "/"
    /\ (~v.loading /\ v.user # NULL
          /\ (~v.allowedRoles.given \/ v.profile.role = NULL
                \/ v.profile.role \in v.allowedRoles.roles))
         => v.outcome = "children"

\* a signed-in user whose profile is null was shown a role-restricted route
C24_Witness ==
  /\ protectedRoute.outcome = "children"
  /\ protectedRoute.user # NULL
  /\ protectedRoute.profile = NoProfile
  /\ protectedRoute.allowedRoles.given

\* C25: once the listener has handled SIGNED_OUT, user and profile are null
\* and stay null until a later sign-in event, also when profile fetches
\* started by earlier events complete afterwards.
C25_SignedOutStaysNull ==
  authProvider.event = "SIGNED_OUT"
    => authProvider.user = NULL /\ authProvider.profile = NoProfile

\* the handles of an application the provider still accepts a payment on
LiveHandles(a) ==
  {h \in HandleIds : intents[h].applicationId = a /\ intents[h].status \in UsableIntentStatus}

\* C26: concurrent create-payment-intent requests for one submitted,
\* unverified application never leave two live handles for it, and once
\* the requests have answered each caller holds the client secret of the
\* handle stored on the application.
C26_ConcurrentRequestsOneHandle ==
  \A a \in DOMAIN applications :
    /\ Cardinality(LiveHandles(a)) <= 1
    /\ (\A c \in CpiIds : cpi[c].pc \in {"idle", "done"})
         => \A c \in CpiIds :
              (cpi[c].pc = "done" /\ cpi[c].status = 200 /\ cpi[c].applicationId = a)
                => cpi[c].clientSecret = client_secret(applications[a].stripe_payment_intent_id)

\* C27: once an application is in decision_released its decision never
\* changes again, whatever page a reviewer acts from.
C27_ReleasedDecisionFinal ==
  [][\A a \in DOMAIN applications :
       applications[a].current_status = "decision_released"
         => applications'[a].decision = applications[a].decision]_vars

\* C28: under the guarded operations payment_verified is true exactly when
\* current_status is payment_received, in_review or decision_released.
C28_VerifiedIffPastPayment ==
  \A a \in DOMAIN applications :
    applications[a].payment_verified
      <=> applications[a].current_status \in {"payment_received", "in_review", "decision_released"}

\* a1 was submitted, a payment handle was stored for it, and it was then
\* verified and moved on to review
C28_Witness ==
  /\ applications["a1"].payment_verified
  /\ applications["a1"].current_status = "in_review"
  /\ applications["a1"].stripe_payment_intent_id # 0
  /\ Len(history["a1"]) >= 3

\* the status the history of an application leads to
Replayed(rows) == IF rows = <<>> THEN "draft" ELSE rows[Len(rows)].new_status

\* C29: the history rows of every application, in insertion order, form a
\* chain: the first starts at draft, each row starts where the previous one
\* ended, no row keeps the status, and the last ends at current_status.
C29_HistoryChain ==
  \A a \in DOMAIN applications :
    LET rows == history[a] IN
    /\ \A i \in 1..Len(rows) :
         /\ rows[i].old_status = (IF i = 1 THEN "draft" ELSE rows[i-1].new_status)
         /\ rows[i].old_status # rows[i].new_status
    /\ Replayed(rows) = applications[a].current_status

\* an application created by its applicant was submitted, set back to draft
\* by the admin and moved on again
C29_Witness ==
  \E a \in DOMAIN applications :
    /\ Len(history[a]) >= 3
    /\ history[a][1].changed_by \in Applicants
    /\ history[a][2].changed_by = DashboardUser
    /\ history[a][2].new_status = "draft"
    /\ Replayed(history[a]) = applications[a].current_status

\* C30: after any uploads and deletes the stored blobs and the document
\* rows correspond one to one: every row has its blob and every blob its row.
C30_BlobsMatchRows ==
  /\ \A d \in documents : d.file_path \in blobs
  /\ \A b \in blobs : Cardinality({d \in documents : d.file_path = b}) = 1

====
